---- MODULE Spec2Model ----
(***************************************************************************)
(* Model of garlic_netstring::decode (src/garlic_netstring/src/lib.rs).    *)
(*                                                                         *)
(* A reader `r` is modelled as an in-memory cursor: a fixed byte sequence  *)
(* `stream` and the number `pos` of bytes consumed so far.  Bytes are      *)
(* their ASCII codes.  The length type u64 is modelled with Width bits.    *)
(***************************************************************************)
EXTENDS Integers, Sequences, FiniteSets, TLC

\* ------------------------------------------------------------------ bounds
Width == 4
MaxStream == 4
MaxPayload == 3
MaxLong == 11
MaxRecords == 2
MaxCalls == 2

\* --------------------------------------------------------------- constants
Zero == 48
Nine == 57
Colon == 58
Comma == 44
LetterA == 65

RECURSIVE Pow2(_)
Pow2(n) == IF n = 0 THEN 1 ELSE 2 * Pow2(n - 1)

U64_MAX == Pow2(Width) - 1

InitialLenOne == 1 + 0

\* let mut len = 0u64;
InitialLen == 0

\* A sentinel for Option::None in the results of the checked arithmetic.
None == -1

\* ------------------------------------------------------- pure helper code
wrapping_mul(a, b) == (a * b) % (U64_MAX + 1)

checked_mul(a, b) == IF a * b > U64_MAX THEN None ELSE a * b

wrapping_add(a, b) == (a + b) % (U64_MAX + 1)

checked_add(a, b) == IF a + b > U64_MAX THEN None ELSE a + b

IsNonZeroDigit(b) == b > Zero /\ b <= Nine

IsDigitOrLetter(b) == b >= Zero /\ b <= LetterA /\ b # Colon

IsDigit(b) == b >= Zero /\ b <= Nine

DigitValueOffByOne(b) == b - Zero + 1

DigitValue(b) == b - Zero

read_lenient(s, p) ==
    IF p < Len(s)
    THEN [ok |-> TRUE, byte |-> s[p + 1], pos |-> p + 1]
    ELSE [ok |-> TRUE, byte |-> 0, pos |-> Len(s)]

read_exact_peek(s, p) ==
    IF p < Len(s)
    THEN [ok |-> TRUE, byte |-> s[p + 1], pos |-> p]
    ELSE [ok |-> FALSE, byte |-> 0, pos |-> Len(s)]

read_exact_rewinding(s, p) ==
    IF p < Len(s)
    THEN [ok |-> TRUE, byte |-> s[p + 1], pos |-> p + 1]
    ELSE [ok |-> FALSE, byte |-> 0, pos |-> IF p > 0 THEN p - 1 ELSE 0]

\* r.read_exact(&mut [0]) on a cursor: one byte, or an io::Error at the end.
read_exact(s, p) ==
    IF p < Len(s)
    THEN [ok |-> TRUE, byte |-> s[p + 1], pos |-> p + 1]
    ELSE [ok |-> FALSE, byte |-> 0, pos |-> Len(s)]

Min(a, b) == IF a < b THEN a ELSE b

read_to_end_unbounded(s, p, limit) == SubSeq(s, p + 1, Len(s))

\* r.take(limit).read_to_end(..): the bytes delivered, at most `limit`.
take_read_to_end(s, p, limit) == SubSeq(s, p + 1, p + Min(limit, Len(s) - p))

overwrite(b, bytes) == bytes

\* Vec growth performed by read_to_end: the bytes are appended.
extend(b, bytes) == b \o bytes

AnyByteIsComma(b) == TRUE

IsComma(b) == b = Comma

\* The predicate f: FnOnce(u64) -> bool, given as the set of lengths it accepts.
Accepts(pred, n) == n \in pred

Err(tag) == [tag |-> tag, val |-> 0]

ErrLengthZero(n) == [tag |-> "Length", val |-> 0]

ErrLength(n) == [tag |-> "Length", val |-> n]

OkWithTerminator(n) == [tag |-> "Ok", val |-> n + 1]

Ok(n) == [tag |-> "Ok", val |-> n]

Pending == [tag |-> "Pending", val |-> 0]

\* ------------------------------------------------- the netstring wire format
RECURSIVE Decimal(_)
Decimal(n) == IF n < 10 THEN <<Zero + n>> ELSE Decimal(n \div 10) \o <<Zero + (n % 10)>>

Encode(payload) == Decimal(Len(payload)) \o <<Colon>> \o payload \o <<Comma>>

RECURSIVE EncodeAll(_)
EncodeAll(recs) ==
    IF recs = <<>> THEN <<>> ELSE Encode(Head(recs)) \o EncodeAll(Tail(recs))

\* ------------------------------------------------------------------ inputs
Bytes == {Zero, Zero + 1, Zero + 2, Nine, Colon, Comma, LetterA}
PayloadBytes == {LetterA, Colon, Comma}

SeqsUpTo(S, n) == UNION {[1..k -> S] : k \in 0..n}

ShortStreams == SeqsUpTo(Bytes, MaxStream)

LongPayloads ==
    UNION {{[i \in 1..n |-> IF i = k THEN b ELSE LetterA] : k \in {1, n}, b \in PayloadBytes} :
            n \in {m \in 10..MaxLong : m <= U64_MAX}}

Payloads == SeqsUpTo(PayloadBytes, MaxPayload) \cup LongPayloads

\* Payloads of the records of a stream that holds several records.
SeqPayloads == {<<>>, <<LetterA>>, <<Comma>>, <<Colon, LetterA>>}

RecordSeqs ==
    {<<p>> : p \in Payloads} \cup UNION {[1..k -> SeqPayloads] : k \in 2..MaxRecords}

\* What follows the last record on the stream.
Trailers == {<<>>, <<LetterA>>}

\* Records whose length is written with a leading zero, such as "01:A,".
LeadingZeroStreams == {<<Zero>> \o Encode(p) \o t : p \in SeqPayloads, t \in Trailers}

AcceptAll == 0..U64_MAX
Predicates == {AcceptAll, {}, 0..1}

InitialBuffers == {<<>>, <<LetterA, Comma>>}

\* ------------------------------------------------------------------- state
VARIABLES
    stream,     \* the bytes behind the reader r
    pos,        \* the reader's position: bytes consumed so far
    buf,        \* the caller's Vec<u8>
    f,          \* the validation predicate of the current call
    len,        \* the length accumulated / parsed
    pc,         \* where the current call is
    result,     \* what the current call returned
    start,      \* the position at which the current call began
    buf0,       \* the buffer content when the current call began
    fCalls,     \* how often the current call has evaluated f
    fArg,       \* the length f was evaluated on (None: not evaluated)
    failedAt,   \* the pc at which the current call failed
    calls,      \* number of decode calls made on the stream
    records     \* the payloads the stream was encoded from (<<>>: arbitrary bytes)

vars == <<stream, pos, buf, f, len, pc, result, start, buf0, fCalls, fArg, failedAt,
          calls, records>>

Init ==
    /\ \/ /\ stream \in ShortStreams \cup LeadingZeroStreams
          /\ records = <<>>
       \/ /\ records \in RecordSeqs
          /\ \E t \in Trailers : stream = EncodeAll(records) \o t
    /\ pos = 0
    /\ buf \in InitialBuffers
    /\ f \in Predicates
    /\ len = InitialLen
    /\ pc = "Start"
    /\ result = Pending
    /\ start = 0
    /\ buf0 = buf
    /\ fCalls = 0
    /\ fArg = None
    /\ failedAt = "None"
    /\ calls = 1

FailAndRetry(e) ==
    /\ result' = e
    /\ failedAt' = pc
    /\ pc' = "Start"

Fail(e) ==
    /\ result' = e
    /\ failedAt' = pc
    /\ pc' = "Failed"

\* One iteration of the loop of decode_len.
DecodeLenStep ==
    /\ pc = "Start"
    /\ LET rd == read_exact(stream, pos) IN
       /\ pos' = rd.pos
       /\ \/ /\ ~rd.ok
             /\ Fail(Err("Io"))
             /\ UNCHANGED len
          \/ /\ rd.ok
             /\ IsDigit(rd.byte)
             /\ checked_mul(len, 10) = None
             /\ Fail(Err("Overflow"))
             /\ UNCHANGED len
          \/ /\ rd.ok
             /\ IsDigit(rd.byte)
             /\ checked_mul(len, 10) # None
             /\ checked_add(checked_mul(len, 10), DigitValue(rd.byte)) = None
             /\ Fail(Err("Overflow"))
             /\ len' = checked_mul(len, 10)
          \/ /\ rd.ok
             /\ IsDigit(rd.byte)
             /\ checked_mul(len, 10) # None
             /\ checked_add(checked_mul(len, 10), DigitValue(rd.byte)) # None
             /\ len' = checked_add(checked_mul(len, 10), DigitValue(rd.byte))
             /\ UNCHANGED <<pc, result, failedAt>>
          \/ /\ rd.ok
             /\ ~IsDigit(rd.byte)
             /\ rd.byte = Colon
             /\ pc' = "LengthParsed"
             /\ UNCHANGED <<len, result, failedAt>>
          \/ /\ rd.ok
             /\ ~IsDigit(rd.byte)
             /\ rd.byte # Colon
             /\ Fail(Err("Syntax"))
             /\ UNCHANGED len
    /\ UNCHANGED <<stream, buf, f, start, buf0, fCalls, fArg, calls, records>>

CallPredicateTwice ==
    /\ pc = "LengthParsed"
    /\ fCalls' = fCalls + 2
    /\ fArg' = len
    /\ \/ /\ Accepts(f, len)
          /\ pc' = "Validated"
          /\ UNCHANGED <<result, failedAt>>
       \/ /\ ~Accepts(f, len)
          /\ Fail(ErrLength(len))
    /\ UNCHANGED <<stream, pos, buf, f, len, start, buf0, calls, records>>

\* if !f(len) { return Err(Error::Length(len)); }
CallPredicate ==
    /\ pc = "LengthParsed"
    /\ fCalls' = fCalls + 1
    /\ fArg' = len
    /\ \/ /\ Accepts(f, len)
          /\ pc' = "Validated"
          /\ UNCHANGED <<result, failedAt>>
       \/ /\ ~Accepts(f, len)
          /\ Fail(ErrLength(len))
    /\ UNCHANGED <<stream, pos, buf, f, len, start, buf0, calls, records>>

ReadPayloadRollback ==
    /\ pc = "Validated"
    /\ LET bytes == take_read_to_end(stream, pos, len) IN
       /\ pos' = pos + Len(bytes)
       /\ \/ /\ Len(bytes) # len
             /\ buf' = buf
             /\ Fail(Err("Incomplete"))
          \/ /\ Len(bytes) = len
             /\ buf' = extend(buf, bytes)
             /\ pc' = "PayloadRead"
             /\ UNCHANGED <<result, failedAt>>
    /\ UNCHANGED <<stream, f, len, start, buf0, fCalls, fArg, calls, records>>

\* let nread = r.take(len).read_to_end(buf)?; if nread != len { Incomplete }
ReadPayload ==
    /\ pc = "Validated"
    /\ LET bytes == take_read_to_end(stream, pos, len) IN
       /\ buf' = extend(buf, bytes)
       /\ pos' = pos + Len(bytes)
       /\ \/ /\ Len(bytes) # len
             /\ Fail(Err("Incomplete"))
          \/ /\ Len(bytes) = len
             /\ pc' = "PayloadRead"
             /\ UNCHANGED <<result, failedAt>>
    /\ UNCHANGED <<stream, f, len, start, buf0, fCalls, fArg, calls, records>>

\* r.read_exact(&mut commabuf)?; if commabuf[0] != b',' { Syntax }
ReadComma ==
    /\ pc = "PayloadRead"
    /\ LET rd == read_exact(stream, pos) IN
       /\ pos' = rd.pos
       /\ \/ /\ ~rd.ok
             /\ Fail(Err("Io"))
          \/ /\ rd.ok
             /\ ~IsComma(rd.byte)
             /\ Fail(Err("Syntax"))
          \/ /\ rd.ok
             /\ IsComma(rd.byte)
             /\ pc' = "TerminatorChecked"
             /\ UNCHANGED <<result, failedAt>>
    /\ UNCHANGED <<stream, buf, f, len, start, buf0, fCalls, fArg, calls, records>>

\* Ok(len)
ReturnOk ==
    /\ pc = "TerminatorChecked"
    /\ result' = Ok(len)
    /\ pc' = "Done"
    /\ UNCHANGED <<stream, pos, buf, f, len, start, buf0, fCalls, fArg, failedAt, calls, records>>

\* The caller decodes the next record from the same reader, into a fresh
\* buffer or into the buffer it already holds.
NextCall ==
    /\ pc = "Done"
    /\ calls < MaxCalls
    /\ calls' = calls + 1
    /\ f' \in Predicates
    /\ \/ buf' = <<>>
       \/ buf' = buf
    /\ buf0' = buf'
    /\ start' = pos
    /\ len' = InitialLen
    /\ pc' = "Start"
    /\ result' = Pending
    /\ fCalls' = 0
    /\ fArg' = None
    /\ failedAt' = "None"
    /\ UNCHANGED <<stream, pos, records>>

Next ==
    \/ DecodeLenStep
    \/ CallPredicate
    \/ ReadPayload
    \/ ReadComma
    \/ ReturnOk
    \/ NextCall

Spec == Init /\ [][Next]_vars

\* The steps of a running call.  decode is straight-line code around one loop:
\* a call that has a next step takes it.
DecodeStep ==
    \/ DecodeLenStep
    \/ CallPredicate
    \/ ReadPayload
    \/ ReadComma
    \/ ReturnOk

LiveSpec == Init /\ [][Next]_vars /\ WF_vars(DecodeStep)

\* ------------------------------------------------ the input, read directly
\* What the bytes at the current call's starting position say, computed from
\* the stream alone.
AsciiDigit(b) == b \in 48..57

\* Index of the last byte of the run of digits that begins the call's input.
DigitRunEnd ==
    CHOOSE k \in start..Len(stream) :
        /\ \A i \in (start + 1)..k : AsciiDigit(stream[i])
        /\ k = Len(stream) \/ ~AsciiDigit(stream[k + 1])

RECURSIVE DecimalValue(_)
DecimalValue(d) ==
    IF d = <<>> THEN 0
    ELSE DecimalValue(SubSeq(d, 1, Len(d) - 1)) * 10 + (d[Len(d)] - 48)

PrefixValue == DecimalValue(SubSeq(stream, start + 1, DigitRunEnd))

ColonAt == DigitRunEnd + 1

\* The input begins with digits and a colon, and the digits fit the length type.
HasPrefix ==
    /\ DigitRunEnd < Len(stream)
    /\ stream[ColonAt] = 58
    /\ PrefixValue <= U64_MAX

PayloadEnd == ColonAt + PrefixValue

\* The digits the scan has consumed so far.
ScannedDigits == SubSeq(stream, start + 1, Min(pos, DigitRunEnd))

\* ------------------------------------------------------------------ claims

\* C1: whenever decode returns success, the stream position is exactly one
\* byte past the comma that terminates the netstring (the byte at index
\* colon + length + 1): nothing after it is consumed, nothing before it unread.
C1_PositionPastComma ==
    result.tag = "Ok" =>
        /\ HasPrefix
        /\ pos = PayloadEnd + 1
        /\ stream[pos] = 44

C1_Witness ==
    /\ result.tag = "Ok"
    /\ PrefixValue >= 1
    /\ pos < Len(stream)

\* C2: round trip: decoding decimal(n) ++ ":" ++ payload ++ "," with an
\* always-true predicate and an empty buffer does not fail, and returns n with
\* the buffer equal to the payload.
C2_RoundTrip ==
    (/\ calls = 1
     /\ Len(records) = 1
     /\ stream = Encode(records[1])
     /\ f = AcceptAll
     /\ buf0 = <<>>)
        => /\ pc # "Failed"
           /\ pc = "Done" => /\ result = [tag |-> "Ok", val |-> Len(records[1])]
                             /\ buf = records[1]

C2_Witness ==
    /\ pc = "Done"
    /\ calls = 1
    /\ Len(records) = 1
    /\ stream = Encode(records[1])
    /\ f = AcceptAll
    /\ buf0 = <<>>
    /\ Len(records[1]) >= 10
    /\ \E i \in 1..Len(records[1]) : records[1][i] = 44
    /\ buf = records[1]

\* C3: when the length scan succeeds with n and the predicate rejects n, decode
\* fails with Length(n), the buffer is as before the call and the position is
\* immediately past the colon.
C3_LengthRejected ==
    /\ (HasPrefix /\ PrefixValue \notin f /\ pc \notin {"Start", "LengthParsed"})
          => /\ pc = "Failed"
             /\ result = [tag |-> "Length", val |-> PrefixValue]
             /\ buf = buf0
             /\ pos = ColonAt
    /\ result.tag = "Length" => (HasPrefix /\ PrefixValue \notin f)

C3_Witness ==
    /\ result.tag = "Length"
    /\ result.val >= 2
    /\ buf0 # <<>>
    /\ buf = buf0
    /\ pos < Len(stream)

\* C4: a call whose length scan succeeds evaluates the predicate exactly once,
\* on the fully parsed length, after the colon is consumed and before any
\* payload byte is read or appended; a call whose scan fails never evaluates it.
C4_PredicateOnce ==
    /\ fCalls \in {0, 1}
    /\ fCalls = 0 <=> fArg = None
    /\ (pc = "Start" \/ failedAt = "Start") => fCalls = 0
    /\ (pc \notin {"Start", "LengthParsed"} /\ failedAt # "Start")
          => (fCalls = 1 /\ HasPrefix /\ fArg = PrefixValue)
    /\ fCalls = 0 => (buf = buf0 /\ pos <= DigitRunEnd + 1)
    /\ fCalls = 1 => (HasPrefix /\ pos >= ColonAt)
    /\ (pc = "Validated" \/ failedAt = "LengthParsed") => (buf = buf0 /\ pos = ColonAt)

C4_Witness ==
    /\ pc = "PayloadRead"
    /\ fCalls = 1
    /\ fArg >= 2
    /\ Len(buf) = Len(buf0) + fArg

\* C5: if the digits read would take the length above the maximum of the
\* length type, decode fails with Overflow; the accumulated length never wraps,
\* so the value given to the predicate and the value returned are the decimal
\* value of the digits read.
C5_OverflowNotWrap ==
    /\ DecimalValue(ScannedDigits) > U64_MAX => (pc = "Failed" /\ result = [tag |-> "Overflow", val |-> 0])
    /\ result.tag = "Overflow" => DecimalValue(ScannedDigits) > U64_MAX
    /\ pc = "Start" => len = DecimalValue(ScannedDigits)
    /\ fArg # None => fArg = PrefixValue
    /\ result.tag = "Ok" => result.val = PrefixValue

C5_Witness ==
    /\ result.tag = "Overflow"
    /\ DecimalValue(ScannedDigits) > U64_MAX
    /\ DecimalValue(ScannedDigits) - (stream[pos] - 48) <= U64_MAX
    /\ pos < Len(stream)

\* C6: a successful decode returning n leaves the buffer equal to its content
\* before the call followed by exactly the n payload bytes, in stream order.
C6_AppendsPayload ==
    result.tag = "Ok" => buf = buf0 \o SubSeq(stream, ColonAt + 1, ColonAt + PrefixValue)

C6_Witness ==
    /\ result.tag = "Ok"
    /\ buf0 # <<>>
    /\ result.val >= 2
    /\ Len(buf) = Len(buf0) + 2

\* C7: when the accepted length n exceeds the number of bytes left after the
\* colon, decode fails with Incomplete; and the payload read never consumes
\* more than n bytes after the colon.
C7_IncompleteAndBounded ==
    /\ (/\ HasPrefix
        /\ PrefixValue \in f
        /\ Len(stream) - ColonAt < PrefixValue
        /\ pc \notin {"Start", "LengthParsed", "Validated"})
          => (pc = "Failed" /\ result = [tag |-> "Incomplete", val |-> 0])
    /\ (pc = "PayloadRead" \/ failedAt = "Validated") => pos - ColonAt <= PrefixValue
    /\ result.tag = "Incomplete" => (HasPrefix /\ Len(stream) - ColonAt < PrefixValue)

C7_Witness ==
    /\ result.tag = "Incomplete"
    /\ PrefixValue >= 2
    /\ pos > ColonAt

\* C8: after the n payload bytes, decode reads exactly one more byte: a byte
\* other than ',' gives Syntax, the end of the stream gives Io, and only ','
\* lets the call succeed.
C8_Terminator ==
    (/\ HasPrefix
     /\ PrefixValue \in f
     /\ Len(stream) >= PayloadEnd
     /\ pc \in {"TerminatorChecked", "Done", "Failed"})
        => /\ pos = Min(PayloadEnd + 1, Len(stream))
           /\ IF Len(stream) = PayloadEnd
              THEN pc = "Failed" /\ result = [tag |-> "Io", val |-> 0]
              ELSE IF stream[PayloadEnd + 1] # 44
                   THEN pc = "Failed" /\ result = [tag |-> "Syntax", val |-> 0]
                   ELSE pc # "Failed"

C8_Witness ==
    /\ result.tag = "Io"
    /\ failedAt = "PayloadRead"
    /\ PrefixValue >= 1
    /\ stream[pos] = 44

\* C9: in the length scan, a byte that is neither a digit nor ':' gives Syntax,
\* and the end of the stream before a colon gives Io; either way the predicate
\* is not called and the buffer is unchanged.
C9_ScanFailures ==
    (PrefixValue <= U64_MAX /\ pc # "Start")
        => /\ DigitRunEnd = Len(stream)
                => /\ pc = "Failed"
                   /\ result = [tag |-> "Io", val |-> 0]
                   /\ fCalls = 0
                   /\ buf = buf0
           /\ (DigitRunEnd < Len(stream) /\ stream[DigitRunEnd + 1] # 58)
                => /\ pc = "Failed"
                   /\ result = [tag |-> "Syntax", val |-> 0]
                   /\ fCalls = 0
                   /\ buf = buf0
                   /\ pos = DigitRunEnd + 1

C9_Witness ==
    /\ result.tag = "Syntax"
    /\ failedAt = "Start"
    /\ DigitRunEnd > start
    /\ buf0 # <<>>
    /\ buf = buf0

\* C10: on a stream of k concatenated netstrings, successive decode calls
\* (always-true predicate, fresh buffer) succeed in order: call i starts where
\* record i starts, returns record i's length and payload, stops where record i
\* ends and never consumes a byte of record i + 1.
C10_RepeatedDecode ==
    (/\ calls <= Len(records)
     /\ f = AcceptAll
     /\ buf0 = <<>>)
        => LET before == Len(EncodeAll(SubSeq(records, 1, calls - 1)))
               after == before + Len(Encode(records[calls]))
           IN /\ start = before
              /\ pos <= after
              /\ pc # "Failed"
              /\ pc = "Done" => /\ result = [tag |-> "Ok", val |-> Len(records[calls])]
                                /\ buf = records[calls]
                                /\ pos = after

C10_Witness ==
    /\ calls = 2
    /\ Len(records) >= 2
    /\ pc = "Done"
    /\ f = AcceptAll
    /\ buf0 = <<>>
    /\ buf = records[2]
    /\ Len(records[1]) >= 1
    /\ Len(records[2]) >= 2
    /\ pos < Len(stream)

\* C11 (as stated): every successful decode returning n has consumed exactly
\* len(decimal(n)) + 1 + n + 1 bytes, decimal(n) being the canonical decimal.
C11_Original ==
    result.tag = "Ok" => pos - start = Len(Decimal(result.val)) + 1 + result.val + 1

\* C11 (amended): every successful decode returning n has consumed exactly
\* d + 1 + n + 1 bytes, d being the number of digit bytes before the colon;
\* that is len(decimal(n)) + 1 + n + 1 when those digits are the canonical
\* decimal of n.
C11_ConsumedCount ==
    result.tag = "Ok" =>
        /\ pos - start = (DigitRunEnd - start) + 1 + result.val + 1
        /\ SubSeq(stream, start + 1, DigitRunEnd) = Decimal(result.val)
              => pos - start = Len(Decimal(result.val)) + 1 + result.val + 1

C11_Witness ==
    /\ result.tag = "Ok"
    /\ result.val >= 1
    /\ DigitRunEnd - start > Len(Decimal(result.val))
    /\ pos < Len(stream)

\* C12: on success the returned value is the parsed length, which is the value
\* the predicate accepted, and is the number of bytes the call appended.
C12_ReturnsLength ==
    result.tag = "Ok" =>
        /\ result.val = PrefixValue
        /\ result.val = fArg
        /\ fArg \in f
        /\ result.val = Len(buf) - Len(buf0)

C12_Witness ==
    /\ result.tag = "Ok"
    /\ result.val = 1
    /\ fArg = 1
    /\ f # AcceptAll
    /\ buf0 # <<>>
    /\ Len(buf) = Len(buf0) + 1

\* C13: a prefix with no digits is accepted: input starting with ':' parses as
\* length 0, and ":," with an always-true predicate decodes to Ok(0) with the
\* buffer unchanged and the position at 2.
C13_EmptyPrefix ==
    /\ (start < Len(stream) /\ stream[start + 1] = 58 /\ pc # "Start")
          => /\ failedAt # "Start"
             /\ len = 0
             /\ fArg \in {None, 0}
             /\ pc = "LengthParsed" => pos = start + 1
    /\ (calls = 1 /\ stream = <<58, 44>> /\ f = AcceptAll)
          => /\ pc # "Failed"
             /\ pc = "Done" => (result = [tag |-> "Ok", val |-> 0] /\ buf = buf0 /\ pos = 2)

C13_Witness ==
    /\ calls = 1
    /\ stream = <<58, 44>>
    /\ f = AcceptAll
    /\ pc = "Done"
    /\ buf0 # <<>>
    /\ buf = buf0
    /\ pos = 2

\* The place of a phase in the order Start, LengthParsed, Validated,
\* PayloadRead, TerminatorChecked, Done.
PhaseRank(p) ==
    CASE p = "Start" -> 0
      [] p = "LengthParsed" -> 1
      [] p = "Validated" -> 2
      [] p = "PayloadRead" -> 3
      [] p = "TerminatorChecked" -> 4
      [] p = "Done" -> 5
      [] OTHER -> 6

\* C14: a call moves through Start, LengthParsed, Validated, PayloadRead,
\* TerminatorChecked, Done in that order, never back; a failure is terminal:
\* after it the call takes no further step (no read, no append, no predicate
\* call) and the failure it recorded is what it returns.
C14_LinearPhases ==
    [][calls' = calls =>
          /\ pc \notin {"Done", "Failed"}
          /\ \/ pc' = "Failed" /\ result'.tag \notin {"Pending", "Ok"}
             \/ pc' = "Start" /\ pc = "Start" /\ result' = result
             \/ PhaseRank(pc') = PhaseRank(pc) + 1 /\ (pc' # "Done" => result' = result)]_vars

C14_Witness ==
    /\ pc = "Failed"
    /\ failedAt = "PayloadRead"
    /\ result.tag = "Syntax"
    /\ fCalls = 1
    /\ pos < Len(stream)

\* C15: when decode fails with Overflow the position is exactly past the digit
\* whose accumulation overflowed, the predicate has not been called and the
\* buffer is as before the call.
C15_OverflowFrame ==
    result.tag = "Overflow" =>
        /\ pos > start
        /\ pos <= DigitRunEnd
        /\ DecimalValue(SubSeq(stream, start + 1, pos)) > U64_MAX
        /\ DecimalValue(SubSeq(stream, start + 1, pos - 1)) <= U64_MAX
        /\ fCalls = 0
        /\ fArg = None
        /\ buf = buf0

C15_Witness ==
    /\ result.tag = "Overflow"
    /\ pos = start + 3
    /\ pos < Len(stream)
    /\ buf0 # <<>>

\* C16: the stream position never decreases: a one-byte read advances it by
\* at most one, the payload read advances it by the number of bytes it
\* appended, and the bytes behind the position are never read again.
C16_PositionMonotone ==
    [][/\ pos' >= pos
       /\ pos' <= Len(stream)
       /\ stream' = stream
       /\ pc # "Validated" => (pos' <= pos + 1 /\ (calls' = calls => buf' = buf))
       /\ pc = "Validated" => buf' = buf \o SubSeq(stream, pos + 1, pos')]_vars

C16_Witness ==
    /\ pc = "PayloadRead"
    /\ pos = start + 4
    /\ start > 0

\* C17: when the input is a digit string D, leading zeros allowed, followed by
\* ':' and the value of D fits the length type, the scan succeeds with exactly
\* the value of D and leaves the position immediately past the colon, |D| + 1
\* bytes from where it began.
C17_ScanValue ==
    (HasPrefix /\ pc # "Start")
        => /\ failedAt # "Start"
           /\ len = PrefixValue
           /\ pos >= ColonAt
           /\ pc = "LengthParsed" => (pos = ColonAt /\ pos - start = (DigitRunEnd - start) + 1)
           /\ fArg \in {None, PrefixValue}

C17_Witness ==
    /\ pc = "Done"
    /\ stream[start + 1] = 48
    /\ DigitRunEnd = start + 2
    /\ result = [tag |-> "Ok", val |-> 1]
    /\ buf = buf0 \o <<65>>

\* C18: on every finite stream a decode call terminates, with success or one
\* of the five error kinds, without consuming more than the stream holds; each
\* iteration of the length scan that continues has consumed one byte.
C18_Terminates ==
    /\ [](pos <= Len(stream))
    /\ [](pc \in {"Done", "Failed"}
            => result.tag \in {"Ok", "Io", "Incomplete", "Length", "Overflow", "Syntax"})
    /\ [][(pc = "Start" /\ pc' = "Start" /\ calls' = calls) => pos' = pos + 1]_vars
    /\ (pc = "Start") ~> (pc \in {"Done", "Failed"})

C18_Witness ==
    /\ pc = "Failed"
    /\ result.tag = "Io"
    /\ failedAt = "Start"
    /\ pos = Len(stream)
    /\ pos >= start + 3

\* C19: a failure after the payload read has started does not roll the buffer
\* back: on Incomplete the buffer is its content before the call followed by
\* the fewer-than-length bytes that were left after the colon; on Syntax or Io
\* at the terminator it is that content followed by the whole payload; on the
\* failures before the payload read (Io, Syntax or Overflow in the length scan,
\* Length) it is unchanged.
C19_NoRollback ==
    /\ result.tag = "Incomplete"
          => /\ HasPrefix
             /\ Len(stream) - ColonAt < PrefixValue
             /\ buf = buf0 \o SubSeq(stream, ColonAt + 1, Len(stream))
    /\ (result.tag \in {"Syntax", "Io"} /\ HasPrefix)
          => /\ PrefixValue \in f
             /\ Len(stream) >= PayloadEnd
             /\ buf = buf0 \o SubSeq(stream, ColonAt + 1, PayloadEnd)
    /\ (result.tag \in {"Syntax", "Io"} /\ ~HasPrefix) => buf = buf0
    /\ result.tag \in {"Overflow", "Length"} => buf = buf0

C19_Witness ==
    /\ result.tag = "Incomplete"
    /\ buf0 # <<>>
    /\ PrefixValue >= 9
    /\ Len(buf) = Len(buf0) + 2

TypeOK ==
    /\ pos \in 0..Len(stream)
    /\ len \in 0..U64_MAX
    /\ pc \in {"Start", "LengthParsed", "Validated", "PayloadRead",
               "TerminatorChecked", "Done", "Failed"}
    /\ result.tag \in {"Pending", "Ok", "Io", "Incomplete", "Length", "Overflow", "Syntax"}

====
